---- MODULE Spec2Model ----
(***************************************************************************)
(* CoWork Manager API (src/main.py): two in-memory registries, rooms       *)
(* ("salas") and reservations ("reservas"), each a Python dict kept in     *)
(* insertion order with a module-level id counter, and eight route         *)
(* handlers over them.  One action per handler; the request is drawn from  *)
(* small input sets, the response of the last request is kept in resp and  *)
(* the store as it was before the last request in prev (history only).     *)
(*                                                                         *)
(* Spec serves one request at a time.  The handlers are plain "def"        *)
(* functions, which FastAPI runs on the threads of a pool, and the module   *)
(* takes no lock: SpecThreads serves the requests that write (crear_sala,   *)
(* crear_reserva, eliminar_sala) on two threads, one statement at a time,   *)
(* th holding each thread's request, position and local variables.         *)
(***************************************************************************)
EXTENDS Integers, Sequences, FiniteSets, TLC

VARIABLES salas, reservas, next_sala_id, next_reserva_id, resp, prev, th

vars == <<salas, reservas, next_sala_id, next_reserva_id, resp, prev, th>>

(* ------------------------------ bounds --------------------------------- *)
\* rooms and reservations that may be created in one run, together (caps
\* the two id counters)
MaxCreated == 4
\* requests the two threads may take in one run, together
MaxRequests == 3

(* --------------------------- text as characters ------------------------ *)
\* str.isspace() for the characters used here
IsSpace(c) == c = " "

\* str.lower() on one character
LowerChar(c) == CASE c = "A" -> "a" [] c = "B" -> "b" [] OTHER -> c

\* str.lower()
lower(s) == [i \in DOMAIN s |-> LowerChar(s[i])]

RECURSIVE lstrip(_)
lstrip(s) == IF s # <<>> /\ IsSpace(Head(s)) THEN lstrip(Tail(s)) ELSE s

RECURSIVE rstrip(_)
rstrip(s) ==
    IF s # <<>> /\ IsSpace(s[Len(s)]) THEN rstrip(SubSeq(s, 1, Len(s) - 1)) ELSE s

\* str.strip(): drops leading and trailing whitespace
strip(s) == rstrip(lstrip(s))

(* ------------------------------ date-times ----------------------------- *)
\* datetime.fromisoformat on the date-time texts used here: ok is FALSE where
\* it raises ValueError; aware tells whether the text carries a UTC offset;
\* wall is the wall-clock minute of the day (seconds and fractions are zero
\* in every text), off the UTC offset in minutes.
fromisoformat(s) ==
    CASE s = "2026-01-20T10:00:00"       -> [ok |-> TRUE,  aware |-> FALSE, wall |-> 600, off |-> 0]
      [] s = "2026-01-20T11:00:00"       -> [ok |-> TRUE,  aware |-> FALSE, wall |-> 660, off |-> 0]
      [] s = "2026-01-20T11:00:00.000"   -> [ok |-> TRUE,  aware |-> FALSE, wall |-> 660, off |-> 0]
      [] s = "2026-01-20T12:00:00+01:00" -> [ok |-> TRUE,  aware |-> TRUE,  wall |-> 720, off |-> 60]
      [] OTHER                           -> [ok |-> FALSE, aware |-> FALSE, wall |-> 0,   off |-> 0]

\* faulty variant of parse_iso: no text is refused
parse_iso_any(dt_str) == [fromisoformat(dt_str) EXCEPT !.ok = TRUE]

\* parse_iso: the parsed value, ok = FALSE standing for the HTTPException(400)
parse_iso(dt_str) == fromisoformat(dt_str)

\* the point on the UTC time line an offset-aware value denotes; an
\* offset-naive value is compared by its wall-clock fields
Instant(d) == d.wall - d.off

\* faulty variant of the comparison: fin < inicio, so equal instants pass
datetime_lt(a, b) ==
    IF a.aware # b.aware THEN "TypeError"
    ELSE IF Instant(a) < Instant(b) THEN "True" ELSE "False"

\* fin <= inicio, datetime.__le__: "TypeError" when exactly one operand
\* carries an offset
datetime_le(a, b) ==
    IF a.aware # b.aware THEN "TypeError"
    ELSE IF Instant(a) <= Instant(b) THEN "True" ELSE "False"

(* ------------------------- dict in insertion order --------------------- *)
\* A dict is the sequence of its entries in insertion order; an entry is the
\* value (the fields of SalaOut or ReservaOut) together with the key it is
\* stored under.
Entry(k, v) == [key |-> k] @@ v

\* dict.keys()
Keys(d) == {d[i].key : i \in DOMAIN d}

\* dict.get(k) for a key that is present
Get(d, k) == d[CHOOSE i \in DOMAIN d : d[i].key = k]

\* del d[k]
Del(d, k) == SelectSeq(d, LAMBDA r : r.key # k)

\* faulty variant of the assignment: the key is removed and added again last
PutLast(d, k, v) == Append(SelectSeq(d, LAMBDA r : r.key # k), Entry(k, v))

\* d[k] = v: an existing key keeps its position, a new key goes last
Put(d, k, v) ==
    IF k \in Keys(d) THEN [i \in DOMAIN d |-> IF d[i].key = k THEN Entry(k, v) ELSE d[i]]
    ELSE Append(d, Entry(k, v))

(* ------------------------------ the inputs ------------------------------ *)
Nombres == {<<"A">>, <<" ", "a", " ">>, <<" ">>, <<>>}
\* two texts of the same instant, one earlier, one with a UTC offset, one
\* that is no date-time
Fechas == {"2026-01-20T10:00:00", "2026-01-20T11:00:00", "2026-01-20T11:00:00.000",
           "2026-01-20T12:00:00+01:00", "manana"}
\* ids a request may name: stored ones, deleted ones and one never assigned
SalaIds == 1..next_sala_id
ReservaIds == 1..next_reserva_id

\* request bodies: every combination that passes the request model, and one
\* body for each way of failing it
SalaPayloads ==
    [nombre : Nombres \ {<<>>}, capacidad : {4}, ubicacion : {<<"P", " ">>}]
    \cup {[nombre |-> <<>>, capacidad |-> 4, ubicacion |-> <<"P", " ">>],
          [nombre |-> <<"A">>, capacidad |-> 0, ubicacion |-> <<"P", " ">>],
          [nombre |-> <<"A">>, capacidad |-> 4, ubicacion |-> <<>>]}
ReservaPayloads ==
    [sala_id : SalaIds, nombre_solicitante : {<<" ", "A">>},
     fecha_inicio : Fechas, fecha_fin : Fechas]
    \cup {[sala_id |-> 0, nombre_solicitante |-> <<" ", "A">>,
           fecha_inicio |-> "2026-01-20T10:00:00", fecha_fin |-> "2026-01-20T11:00:00"],
          [sala_id |-> 1, nombre_solicitante |-> <<>>,
           fecha_inicio |-> "2026-01-20T10:00:00", fecha_fin |-> "2026-01-20T11:00:00"]}

\* pydantic: SalaCreate accepts the payload
SalaCreate(p) == Len(p.nombre) >= 1 /\ p.capacidad >= 1 /\ Len(p.ubicacion) >= 1

\* pydantic: ReservaCreate accepts the payload
ReservaCreate(p) == p.sala_id >= 1 /\ Len(p.nombre_solicitante) >= 1

(* ------------------------------ responses ------------------------------- *)
\* resp is the outcome of the last request: the handler, the status code, the
\* error text of a failure, the id of the entity the request created, changed,
\* removed, fetched or filtered by, the fecha_fin and the list returned.
NoFecha == ""

\* the error texts of the HTTPExceptions (ErrFecha is the text of parse_iso
\* up to its example, in ASCII)
ErrSalaNoEncontrada == "Sala no encontrada"
ErrNombreDuplicado == "Nombre duplicado"
ErrSalaNoExiste == "sala_id no existe"
ErrFecha == "Fecha invalida (use ISO-8601)"
ErrIntervalo == "fecha_fin debe ser mayor a fecha_inicio"
ErrReservaNoEncontrada == "Reserva no encontrada"

Response(op, status, detail, id, fecha_fin, items) ==
    [op |-> op, status |-> status, detail |-> detail, id |-> id,
     fecha_fin |-> fecha_fin, items |-> items]

\* raise HTTPException(status_code, detail={"error": detail})
HTTPException(op, status, detail) == Response(op, status, detail, 0, NoFecha, <<>>)

\* FastAPI's answer to a payload the request model rejects
RequestValidationError(op) == Response(op, 422, "validation error", 0, NoFecha, <<>>)

\* an exception no handler catches: 500 Internal Server Error
Uncaught(op, exc) == Response(op, 500, exc, 0, NoFecha, <<>>)

Store == [salas |-> salas, reservas |-> reservas,
          next_sala_id |-> next_sala_id, next_reserva_id |-> next_reserva_id]

\* A handler is a function of the store and its arguments; it yields the
\* response and the store it leaves behind.
\* Answer: the handler raises, or returns, without having assigned anything
Answer(r) == [resp |-> r, store |-> Store]

\* the handler returns r having left the store st
Return(r, st) == [resp |-> r, store |-> st]

\* entities created so far
Created == (next_sala_id - 1) + (next_reserva_id - 1)

(* ------------------------------- handlers ------------------------------- *)
\* GET /salas
listar_salas == Answer(Response("listar_salas", 200, "", 0, NoFecha, salas))

\* faulty variant of obtener_sala: the missing room is answered with 400
obtener_sala_400(sala_id) ==
    IF sala_id \notin Keys(salas)
    THEN Answer(HTTPException("obtener_sala", 400, ErrSalaNoEncontrada))
    ELSE Answer(Response("obtener_sala", 200, "", sala_id, NoFecha,
                        <<Get(salas, sala_id)>>))

\* GET /salas/{sala_id}
obtener_sala(sala_id) ==
    IF sala_id \notin Keys(salas)
    THEN Answer(HTTPException("obtener_sala", 404, ErrSalaNoEncontrada))
    ELSE Answer(Response("obtener_sala", 200, "", sala_id, NoFecha,
                        <<Get(salas, sala_id)>>))

\* faulty variant of the scan: the names are trimmed but not lower-cased
NombreDuplicadoExacto(nombre) ==
    \E i \in DOMAIN salas : strip(salas[i].nombre) = strip(nombre)

\* the duplicate-name scan of crear_sala
NombreDuplicado(nombre) ==
    \E i \in DOMAIN salas : lower(strip(salas[i].nombre)) = lower(strip(nombre))

\* faulty variant of crear_sala: the id is the number of stored rooms plus
\* one, so the id of a deleted room is given out again
crear_sala_reuses(payload) ==
    IF NombreDuplicado(payload.nombre)
    THEN Answer(HTTPException("crear_sala", 400, ErrNombreDuplicado))
    ELSE Return(Response("crear_sala", 201, "", Len(salas) + 1, NoFecha, <<>>),
                [Store EXCEPT
                    !.salas = Put(salas, Len(salas) + 1,
                                  [id |-> Len(salas) + 1, nombre |-> strip(payload.nombre),
                                   capacidad |-> payload.capacidad,
                                   ubicacion |-> strip(payload.ubicacion)]),
                    !.next_sala_id = next_sala_id + 1])

\* faulty variant of crear_sala: the id is taken before the scan, a refused
\* create consumes it
crear_sala_consumes(payload) ==
    IF NombreDuplicado(payload.nombre)
    THEN Return(HTTPException("crear_sala", 400, ErrNombreDuplicado),
                [Store EXCEPT !.next_sala_id = next_sala_id + 1])
    ELSE Return(Response("crear_sala", 201, "", next_sala_id, NoFecha, <<>>),
                [Store EXCEPT
                    !.salas = Put(salas, next_sala_id,
                                  [id |-> next_sala_id, nombre |-> strip(payload.nombre),
                                   capacidad |-> payload.capacidad,
                                   ubicacion |-> strip(payload.ubicacion)]),
                    !.next_sala_id = next_sala_id + 1])

\* POST /salas, the handler body (the payload has passed SalaCreate)
crear_sala(payload) ==
    IF NombreDuplicado(payload.nombre)
    THEN Answer(HTTPException("crear_sala", 400, ErrNombreDuplicado))
    ELSE Return(Response("crear_sala", 201, "", next_sala_id, NoFecha, <<>>),
                [Store EXCEPT
                    !.salas = Put(salas, next_sala_id,
                                  [id |-> next_sala_id, nombre |-> strip(payload.nombre),
                                   capacidad |-> payload.capacidad,
                                   ubicacion |-> strip(payload.ubicacion)]),
                    !.next_sala_id = next_sala_id + 1])

\* faulty variant of the cascade: the reservations are left alone
CascadeNone(sala_id) == reservas

\* faulty variant of the cascade: the room id is matched against r.id
CascadeById(sala_id) == SelectSeq(reservas, LAMBDA r : r.id # sala_id)

\* the cascade of eliminar_sala: to_delete is every reservation of the room,
\* and each one is removed
Cascade(sala_id) == SelectSeq(reservas, LAMBDA r : r.sala_id # sala_id)

\* DELETE /salas/{sala_id}
eliminar_sala(sala_id) ==
    IF sala_id \notin Keys(salas)
    THEN Answer(HTTPException("eliminar_sala", 404, ErrSalaNoEncontrada))
    ELSE Return(Response("eliminar_sala", 204, "", sala_id, NoFecha, <<>>),
                [Store EXCEPT !.salas = Del(salas, sala_id),
                              !.reservas = Cascade(sala_id)])

\* faulty variant of the room check: any id ever assigned passes
SalaExisteAlguna(sala_id) == sala_id < next_sala_id

\* the room check of crear_reserva: payload.sala_id in salas
SalaExiste(sala_id) == sala_id \in Keys(salas)

\* faulty variant of crear_reserva: a reservation that overlaps a stored one
\* of the same room is refused
crear_reserva_no_overlap(payload) ==
    LET inicio == parse_iso(payload.fecha_inicio)
        fin == parse_iso(payload.fecha_fin)
    IN  IF ~SalaExiste(payload.sala_id)
        THEN Answer(HTTPException("crear_reserva", 400, ErrSalaNoExiste))
        ELSE IF ~inicio.ok \/ ~fin.ok
        THEN Answer(HTTPException("crear_reserva", 400, ErrFecha))
        ELSE IF datetime_le(fin, inicio) = "TypeError"
        THEN Answer(Uncaught("crear_reserva", "TypeError"))
        ELSE IF datetime_le(fin, inicio) = "True"
        THEN Answer(HTTPException("crear_reserva", 400, ErrIntervalo))
        ELSE IF \E i \in DOMAIN reservas :
                   /\ reservas[i].sala_id = payload.sala_id
                   /\ Instant(inicio) < Instant(parse_iso(reservas[i].fecha_fin))
                   /\ Instant(parse_iso(reservas[i].fecha_inicio)) < Instant(fin)
        THEN Answer(HTTPException("crear_reserva", 400, "overlap"))
        ELSE Return(Response("crear_reserva", 201, "", next_reserva_id, NoFecha, <<>>),
                    [Store EXCEPT
                        !.reservas =
                            Put(reservas, next_reserva_id,
                                [id |-> next_reserva_id, sala_id |-> payload.sala_id,
                                 nombre_solicitante |-> strip(payload.nombre_solicitante),
                                 fecha_inicio |-> payload.fecha_inicio,
                                 fecha_fin |-> payload.fecha_fin]),
                        !.next_reserva_id = next_reserva_id + 1])

\* POST /reservas, the handler body (the payload has passed ReservaCreate)
crear_reserva(payload) ==
    LET inicio == parse_iso(payload.fecha_inicio)
        fin == parse_iso(payload.fecha_fin)
    IN  IF ~SalaExiste(payload.sala_id)
        THEN Answer(HTTPException("crear_reserva", 400, ErrSalaNoExiste))
        ELSE IF ~inicio.ok \/ ~fin.ok
        THEN Answer(HTTPException("crear_reserva", 400, ErrFecha))
        ELSE IF datetime_le(fin, inicio) = "TypeError"
        THEN Answer(Uncaught("crear_reserva", "TypeError"))
        ELSE IF datetime_le(fin, inicio) = "True"
        THEN Answer(HTTPException("crear_reserva", 400, ErrIntervalo))
        ELSE Return(Response("crear_reserva", 201, "", next_reserva_id, NoFecha, <<>>),
                    [Store EXCEPT
                        !.reservas =
                            Put(reservas, next_reserva_id,
                                [id |-> next_reserva_id, sala_id |-> payload.sala_id,
                                 nombre_solicitante |-> strip(payload.nombre_solicitante),
                                 fecha_inicio |-> payload.fecha_inicio,
                                 fecha_fin |-> payload.fecha_fin]),
                        !.next_reserva_id = next_reserva_id + 1])

\* GET /reservas without filter (sala_id is None)
historial_reservas_all ==
    Answer(Response("historial_reservas", 200, "", 0, NoFecha, reservas))

\* faulty variant of the listing: the reservations returned are taken out of
\* the registry
historial_reservas_pops(sala_id) ==
    Return(Response("historial_reservas", 200, "", sala_id, NoFecha,
                    SelectSeq(reservas, LAMBDA r : r.sala_id = sala_id)),
           [Store EXCEPT !.reservas = SelectSeq(reservas, LAMBDA r : r.sala_id # sala_id)])

\* faulty variant of the filter: the room id is matched against r.id
historial_reservas_by_id(sala_id) ==
    Answer(Response("historial_reservas", 200, "", sala_id, NoFecha,
                   SelectSeq(reservas, LAMBDA r : r.id = sala_id)))

\* GET /reservas?sala_id=...
historial_reservas(sala_id) ==
    Answer(Response("historial_reservas", 200, "", sala_id, NoFecha,
                   SelectSeq(reservas, LAMBDA r : r.sala_id = sala_id)))

\* PATCH /reservas/{reserva_id}
modificar_reserva(reserva_id, fecha_fin) ==
    IF reserva_id \notin Keys(reservas)
    THEN Answer(HTTPException("modificar_reserva", 404, ErrReservaNoEncontrada))
    ELSE LET reserva == Get(reservas, reserva_id)
             inicio == parse_iso(reserva.fecha_inicio)
             nueva_fin == parse_iso(fecha_fin)
         IN  IF ~inicio.ok \/ ~nueva_fin.ok
             THEN Answer(HTTPException("modificar_reserva", 400, ErrFecha))
             ELSE IF datetime_le(nueva_fin, inicio) = "TypeError"
             THEN Answer(Uncaught("modificar_reserva", "TypeError"))
             ELSE IF datetime_le(nueva_fin, inicio) = "True"
             THEN Answer(HTTPException("modificar_reserva", 400, ErrIntervalo))
             ELSE Return(Response("modificar_reserva", 200, "", reserva.id,
                                  fecha_fin, <<>>),
                         [Store EXCEPT
                             !.reservas = Put(reservas, reserva_id,
                                              [reserva EXCEPT !.fecha_fin = fecha_fin])])

\* faulty variant of cancelar_reserva: a reservation that is not stored is
\* answered like a removed one
cancelar_reserva_idempotent(reserva_id) ==
    Return(Response("cancelar_reserva", 204, "", reserva_id, NoFecha, <<>>),
           [Store EXCEPT !.reservas = Del(reservas, reserva_id)])

\* DELETE /reservas/{reserva_id}
cancelar_reserva(reserva_id) ==
    IF reserva_id \notin Keys(reservas)
    THEN Answer(HTTPException("cancelar_reserva", 404, ErrReservaNoEncontrada))
    ELSE Return(Response("cancelar_reserva", 204, "", reserva_id, NoFecha, <<>>),
                [Store EXCEPT !.reservas = Del(reservas, reserva_id)])

(* ------------------------------- threads -------------------------------- *)
\* the threads of the pool that serve requests at the same time
Threads == {1, 2}

\* A thread: the handler it runs (op), the arguments of the request
\* (sala_id, nombre), the statement it is at (pc), its local variables (id:
\* the id given to SalaOut or ReservaOut; to_delete), its answer (status, ret:
\* the id returned), whether the request ran while the other thread was
\* inside a handler (conc), and the requests it has taken (n).
Idle == [pc |-> "idle", op |-> "", sala_id |-> 0, nombre |-> <<>>, id |-> 0,
         to_delete |-> <<>>, status |-> 0, ret |-> 0, conc |-> FALSE, n |-> 0]

(* ------------------------------- requests ------------------------------- *)
\* FastAPI validates the body against the request model before the handler
\* runs, and answers 422 itself when the model rejects it
post_salas(payload) ==
    IF SalaCreate(payload) THEN crear_sala(payload)
    ELSE Answer(RequestValidationError("crear_sala"))

post_reservas(payload) ==
    IF ReservaCreate(payload) THEN crear_reserva(payload)
    ELSE Answer(RequestValidationError("crear_reserva"))

\* one request served from start to end: the response goes out, the store is
\* what the handler left, prev keeps the store the request found
Serve(out) ==
    /\ resp' = out.resp
    /\ salas' = out.store.salas
    /\ reservas' = out.store.reservas
    /\ next_sala_id' = out.store.next_sala_id
    /\ next_reserva_id' = out.store.next_reserva_id
    /\ prev' = Store
    /\ UNCHANGED th

\* the request creates nothing, or the run may still create
WithinBound(out) ==
    \/ /\ out.store.next_sala_id = next_sala_id
       /\ out.store.next_reserva_id = next_reserva_id
    \/ Created < MaxCreated

Init ==
    /\ salas = <<>>
    /\ reservas = <<>>
    /\ next_sala_id = 1
    /\ next_reserva_id = 1
    /\ resp = Response("start", 0, "", 0, NoFecha, <<>>)
    /\ prev = [salas |-> <<>>, reservas |-> <<>>,
               next_sala_id |-> 1, next_reserva_id |-> 1]
    /\ th = [t \in Threads |-> Idle]

GetSalas == LET out == listar_salas IN Serve(out)

GetSala == \E sala_id \in SalaIds : LET out == obtener_sala(sala_id) IN Serve(out)

PostSalas ==
    \E payload \in SalaPayloads :
        LET out == post_salas(payload) IN WithinBound(out) /\ Serve(out)

DeleteSala == \E sala_id \in SalaIds : LET out == eliminar_sala(sala_id) IN Serve(out)

PostReservas ==
    \E payload \in ReservaPayloads :
        LET out == post_reservas(payload) IN WithinBound(out) /\ Serve(out)

GetReservas ==
    \/ LET out == historial_reservas_all IN Serve(out)
    \/ \E sala_id \in SalaIds : LET out == historial_reservas(sala_id) IN Serve(out)

PatchReserva ==
    \E reserva_id \in ReservaIds, fecha_fin \in Fechas :
        LET out == modificar_reserva(reserva_id, fecha_fin) IN Serve(out)

DeleteReserva ==
    \E reserva_id \in ReservaIds :
        LET out == cancelar_reserva(reserva_id) IN Serve(out)

Next ==
    \/ GetSalas
    \/ GetSala
    \/ PostSalas
    \/ DeleteSala
    \/ PostReservas
    \/ GetReservas
    \/ PatchReserva
    \/ DeleteReserva

Spec == Init /\ [][Next]_vars

(* --------------------- requests served on two threads ------------------- *)
\* the requests the threads take: each passes its request model; the dates
\* of a reservation are the same valid pair throughout
ThreadSalaIds == {1, 2}
ThreadRequests ==
    {[op |-> "crear_sala", sala_id |-> 0, nombre |-> n] :
        n \in {<<"A">>, <<" ", "a", " ">>, <<"B">>}}
    \cup {[op |-> o, sala_id |-> i, nombre |-> <<"A">>] :
            o \in {"crear_reserva", "eliminar_sala"}, i \in ThreadSalaIds}
ThreadInicio == "2026-01-20T10:00:00"
ThreadFin == "2026-01-20T11:00:00"

\* the thread is inside a handler
Running(t) == th[t].pc \notin {"idle", "done"}

\* requests taken so far
Taken == th[1].n + th[2].n

\* the thread moves on to statement pc
Goto(t, pc) == th' = [th EXCEPT ![t].pc = pc]

\* the handler raises HTTPException(status), or an exception nothing catches
Raise(t, status) == th' = [th EXCEPT ![t].pc = "done", ![t].status = status]

\* a free thread of the pool takes a request and enters its handler
Accept(t) ==
    /\ ~Running(t)
    /\ Taken < MaxRequests
    /\ \E req \in ThreadRequests :
          th' = [u \in Threads |->
                    IF u = t
                    THEN [Idle EXCEPT !.pc = req.op, !.op = req.op,
                                      !.sala_id = req.sala_id, !.nombre = req.nombre,
                                      !.conc = \E o \in Threads \ {t} : Running(o),
                                      !.n = th[t].n + 1]
                    ELSE IF Running(u) THEN [th[u] EXCEPT !.conc = TRUE]
                    ELSE th[u]]
    /\ UNCHANGED <<salas, reservas, next_sala_id, next_reserva_id, resp, prev>>

\* crear_sala, the duplicate-name scan
crear_sala_scan(t) ==
    /\ th[t].pc = "crear_sala"
    /\ IF NombreDuplicado(th[t].nombre) THEN Raise(t, 400) ELSE Goto(t, "sala")
    /\ UNCHANGED <<salas, reservas, next_sala_id, next_reserva_id, resp, prev>>

\* crear_sala, sala = SalaOut(id=next_sala_id, ...)
crear_sala_build(t) ==
    /\ th[t].pc = "sala"
    /\ th' = [th EXCEPT ![t].pc = "salas[next_sala_id]", ![t].id = next_sala_id]
    /\ UNCHANGED <<salas, reservas, next_sala_id, next_reserva_id, resp, prev>>

\* crear_sala, salas[next_sala_id] = sala
crear_sala_store(t) ==
    /\ th[t].pc = "salas[next_sala_id]"
    /\ salas' = Put(salas, next_sala_id,
                    [id |-> th[t].id, nombre |-> strip(th[t].nombre),
                     capacidad |-> 4, ubicacion |-> <<"P">>])
    /\ Goto(t, "next_sala_id")
    /\ UNCHANGED <<reservas, next_sala_id, next_reserva_id, resp, prev>>

\* crear_sala, next_sala_id += 1 and return {"id": sala.id}
crear_sala_return(t) ==
    /\ th[t].pc = "next_sala_id"
    /\ next_sala_id' = next_sala_id + 1
    /\ th' = [th EXCEPT ![t].pc = "done", ![t].status = 201, ![t].ret = th[t].id]
    /\ UNCHANGED <<salas, reservas, next_reserva_id, resp, prev>>

\* crear_reserva, the room check and the checks of the dates
crear_reserva_check(t) ==
    /\ th[t].pc = "crear_reserva"
    /\ IF ~SalaExiste(th[t].sala_id) THEN Raise(t, 400)
       ELSE IF ~parse_iso(ThreadInicio).ok \/ ~parse_iso(ThreadFin).ok THEN Raise(t, 400)
       ELSE IF datetime_le(parse_iso(ThreadFin), parse_iso(ThreadInicio)) = "TypeError"
       THEN Raise(t, 500)
       ELSE IF datetime_le(parse_iso(ThreadFin), parse_iso(ThreadInicio)) = "True"
       THEN Raise(t, 400)
       ELSE Goto(t, "reserva")
    /\ UNCHANGED <<salas, reservas, next_sala_id, next_reserva_id, resp, prev>>

\* crear_reserva, reserva = ReservaOut(id=next_reserva_id, ...)
crear_reserva_build(t) ==
    /\ th[t].pc = "reserva"
    /\ th' = [th EXCEPT ![t].pc = "reservas[next_reserva_id]", ![t].id = next_reserva_id]
    /\ UNCHANGED <<salas, reservas, next_sala_id, next_reserva_id, resp, prev>>

\* crear_reserva, reservas[next_reserva_id] = reserva
crear_reserva_store(t) ==
    /\ th[t].pc = "reservas[next_reserva_id]"
    /\ reservas' = Put(reservas, next_reserva_id,
                       [id |-> th[t].id, sala_id |-> th[t].sala_id,
                        nombre_solicitante |-> strip(th[t].nombre),
                        fecha_inicio |-> ThreadInicio, fecha_fin |-> ThreadFin])
    /\ Goto(t, "next_reserva_id")
    /\ UNCHANGED <<salas, next_sala_id, next_reserva_id, resp, prev>>

\* crear_reserva, next_reserva_id += 1 and return {"id": reserva.id}
crear_reserva_return(t) ==
    /\ th[t].pc = "next_reserva_id"
    /\ next_reserva_id' = next_reserva_id + 1
    /\ th' = [th EXCEPT ![t].pc = "done", ![t].status = 201, ![t].ret = th[t].id]
    /\ UNCHANGED <<salas, reservas, next_sala_id, resp, prev>>

\* eliminar_sala, if sala_id not in salas
eliminar_sala_check(t) ==
    /\ th[t].pc = "eliminar_sala"
    /\ IF th[t].sala_id \notin Keys(salas) THEN Raise(t, 404) ELSE Goto(t, "del salas")
    /\ UNCHANGED <<salas, reservas, next_sala_id, next_reserva_id, resp, prev>>

\* eliminar_sala, del salas[sala_id]: KeyError when the key has gone since
eliminar_sala_del(t) ==
    /\ th[t].pc = "del salas"
    /\ IF th[t].sala_id \in Keys(salas)
       THEN salas' = Del(salas, th[t].sala_id) /\ Goto(t, "to_delete")
       ELSE salas' = salas /\ Raise(t, 500)
    /\ UNCHANGED <<reservas, next_sala_id, next_reserva_id, resp, prev>>

\* eliminar_sala, to_delete = [rid for rid, r in reservas.items() if ...]
eliminar_sala_collect(t) ==
    /\ th[t].pc = "to_delete"
    /\ LET own == SelectSeq(reservas, LAMBDA r : r.sala_id = th[t].sala_id)
       IN  th' = [th EXCEPT ![t].pc = "del reservas",
                            ![t].to_delete = [i \in DOMAIN own |-> own[i].key]]
    /\ UNCHANGED <<salas, reservas, next_sala_id, next_reserva_id, resp, prev>>

\* eliminar_sala, one turn of "for rid in to_delete: del reservas[rid]", or
\* the return at its end
eliminar_sala_cascade(t) ==
    /\ th[t].pc = "del reservas"
    /\ IF th[t].to_delete = <<>>
       THEN reservas' = reservas /\ Raise(t, 204)
       ELSE IF Head(th[t].to_delete) \in Keys(reservas)
       THEN /\ reservas' = Del(reservas, Head(th[t].to_delete))
            /\ th' = [th EXCEPT ![t].to_delete = Tail(th[t].to_delete)]
       ELSE reservas' = reservas /\ Raise(t, 500)
    /\ UNCHANGED <<salas, next_sala_id, next_reserva_id, resp, prev>>

NextThreads ==
    \E t \in Threads :
        \/ Accept(t)
        \/ crear_sala_scan(t)
        \/ crear_sala_build(t)
        \/ crear_sala_store(t)
        \/ crear_sala_return(t)
        \/ crear_reserva_check(t)
        \/ crear_reserva_build(t)
        \/ crear_reserva_store(t)
        \/ crear_reserva_return(t)
        \/ eliminar_sala_check(t)
        \/ eliminar_sala_del(t)
        \/ eliminar_sala_collect(t)
        \/ eliminar_sala_cascade(t)

SpecThreads == Init /\ [][NextThreads]_vars

(* ============================== properties ============================== *)
Range(d) == {d[i] : i \in DOMAIN d}

\* name comparison of the uniqueness rule: trimmed, then lower-cased
NombreNormal(nombre) == lower(strip(nombre))

\* C1 - referential integrity: every stored reservation's sala_id is the id
\* of a stored room, in every reachable state.
C1_ReferentialIntegrity ==
    \A i \in DOMAIN reservas : reservas[i].sala_id \in Keys(salas)

\* a room was deleted, the cascade removed reservations, others remain
C1_Witness ==
    /\ resp.op = "eliminar_sala"
    /\ resp.status = 204
    /\ Len(reservas) < Len(prev.reservas)
    /\ reservas # <<>>

\* C2 - interval invariant: for every stored reservation the instant of the
\* stored fecha_fin is strictly later than the instant of the stored
\* fecha_inicio, both texts parse and both are of the same kind (with or
\* without offset).
C2_IntervalInvariant ==
    \A i \in DOMAIN reservas :
        LET inicio == fromisoformat(reservas[i].fecha_inicio)
            fin == fromisoformat(reservas[i].fecha_fin)
        IN  /\ inicio.ok /\ fin.ok
            /\ inicio.aware = fin.aware
            /\ Instant(fin) > Instant(inicio)

\* a patch replaced the end of a stored reservation by another text
C2_Witness ==
    /\ resp.op = "modificar_reserva"
    /\ resp.status = 200
    /\ \E i \in DOMAIN reservas :
          /\ reservas[i].id = resp.id
          /\ reservas[i].fecha_fin # prev.reservas[i].fecha_fin

\* C3 - room names are unique after trimming and lower-casing, in every
\* reachable state, and crear_sala with a name that collides in that sense
\* with a stored room fails with "Nombre duplicado" and stores nothing.
C3_NombreUnico ==
    /\ \A i, j \in DOMAIN salas :
          i # j => NombreNormal(salas[i].nombre) # NombreNormal(salas[j].nombre)
    /\ \A p \in SalaPayloads :
          (/\ SalaCreate(p)
           /\ \E i \in DOMAIN salas :
                 NombreNormal(salas[i].nombre) = NombreNormal(p.nombre))
          => LET out == crear_sala(p)
             IN  /\ out.resp.status = 400
                 /\ out.resp.detail = ErrNombreDuplicado
                 /\ out.store = Store

\* a create was refused as a duplicate while a room of another spelling is stored
C3_Witness ==
    /\ resp.op = "crear_sala"
    /\ resp.detail = ErrNombreDuplicado
    /\ \E i \in DOMAIN salas : salas[i].nombre = <<"a">>
    /\ Len(salas) = 2

\* C4 - cascade delete is exact: after a successful eliminar_sala(id) the
\* rooms are the previous rooms other than id, the reservations are the
\* previous reservations of the other rooms, each unaltered and in the
\* previous order, and both counters are as before.
C4_CascadeExact ==
    (resp.op = "eliminar_sala" /\ resp.status = 204) =>
        /\ resp.id \in Keys(prev.salas)
        /\ Range(salas) = {s \in Range(prev.salas) : s.id # resp.id}
        /\ Len(salas) = Len(prev.salas) - 1
        /\ Range(reservas) = {r \in Range(prev.reservas) : r.sala_id # resp.id}
        /\ Len(reservas) = Cardinality(Range(reservas))
        /\ \A i, j \in DOMAIN reservas : i < j => reservas[i].id < reservas[j].id
        /\ next_sala_id = prev.next_sala_id
        /\ next_reserva_id = prev.next_reserva_id

\* a room with a reservation was deleted while another room kept its own
C4_Witness ==
    /\ resp.op = "eliminar_sala"
    /\ resp.status = 204
    /\ Len(prev.reservas) = 2
    /\ Len(reservas) = 1
    /\ Len(salas) = 1

\* C5 - no partial success: a request that ends in a failure leaves both
\* maps and both counters as they were before it.
C5_NoPartialSuccess ==
    resp.status >= 400 =>
        /\ salas = prev.salas
        /\ reservas = prev.reservas
        /\ next_sala_id = prev.next_sala_id
        /\ next_reserva_id = prev.next_reserva_id

\* a create was refused while rooms and reservations were stored
C5_Witness ==
    /\ resp.op \in {"crear_sala", "crear_reserva"}
    /\ resp.status = 400
    /\ salas # <<>>
    /\ reservas # <<>>

\* C6 - crear_reserva with a sala_id that is no stored room (never assigned,
\* or deleted) and dates that both parse fails with "sala_id no existe" and
\* stores nothing.
C6_UnknownRoom ==
    \A p \in ReservaPayloads :
        (/\ ReservaCreate(p)
         /\ p.sala_id \notin Keys(salas)
         /\ fromisoformat(p.fecha_inicio).ok
         /\ fromisoformat(p.fecha_fin).ok)
        => LET out == crear_reserva(p)
           IN  /\ out.resp.status = 400
               /\ out.resp.detail = ErrSalaNoExiste
               /\ out.store = Store

\* a reservation was refused for its room while one room was deleted and
\* another is stored
C6_Witness ==
    /\ resp.op = "crear_reserva"
    /\ resp.detail = ErrSalaNoExiste
    /\ salas # <<>>
    /\ Len(salas) < next_sala_id - 1

\* C7 as claimed - crear_reserva fails with the date error whenever
\* fecha_inicio or fecha_fin does not parse, for every sala_id, stored or not.
C7_FechaInvalidaAnyRoom ==
    \A p \in ReservaPayloads :
        (/\ ReservaCreate(p)
         /\ ~fromisoformat(p.fecha_inicio).ok \/ ~fromisoformat(p.fecha_fin).ok)
        => LET out == crear_reserva(p)
           IN  /\ out.resp.status = 400
               /\ out.resp.detail = ErrFecha

\* C7 as amended - when fecha_inicio or fecha_fin does not parse, crear_reserva
\* fails with the date error if sala_id is a stored room and with
\* "sala_id no existe" if it is not (the room check comes first); nothing is
\* stored either way.
C7_FechaInvalida ==
    \A p \in ReservaPayloads :
        (/\ ReservaCreate(p)
         /\ ~fromisoformat(p.fecha_inicio).ok \/ ~fromisoformat(p.fecha_fin).ok)
        => LET out == crear_reserva(p)
           IN  /\ out.resp.status = 400
               /\ out.resp.detail =
                     IF p.sala_id \in Keys(salas) THEN ErrFecha ELSE ErrSalaNoExiste
               /\ out.store = Store

\* a reservation for a stored room was refused for its dates
C7_Witness ==
    /\ resp.op = "crear_reserva"
    /\ resp.status = 400
    /\ resp.detail = ErrFecha
    /\ salas # <<>>

\* C8 - crear_reserva on a stored room and modificar_reserva on a stored
\* reservation, with both date-times parsing (with or without offset), end in
\* success or in "fecha_fin debe ser mayor a fecha_inicio", never otherwise.
C8_StructuredOutcome ==
    /\ \A p \in ReservaPayloads :
          (/\ ReservaCreate(p)
           /\ p.sala_id \in Keys(salas)
           /\ fromisoformat(p.fecha_inicio).ok
           /\ fromisoformat(p.fecha_fin).ok)
          => LET out == crear_reserva(p)
             IN  \/ out.resp.status = 201
                 \/ /\ out.resp.status = 400
                    /\ out.resp.detail = ErrIntervalo
    /\ \A id \in Keys(reservas), f \in Fechas :
          fromisoformat(f).ok
          => LET out == modificar_reserva(id, f)
             IN  \/ out.resp.status = 200
                 \/ /\ out.resp.status = 400
                    /\ out.resp.detail = ErrIntervalo

\* C9 - modificar_reserva on a stored reservation with a fecha_fin that parses
\* succeeds exactly when its instant is strictly later than the instant of the
\* stored fecha_inicio (a text without offset read as UTC); on success the
\* stored and the returned fecha_fin are the text given; otherwise it fails
\* with "fecha_fin debe ser mayor a fecha_inicio" and the stored fecha_fin stays.
C9_PatchEnd ==
    \A id \in Keys(reservas), f \in Fechas :
        fromisoformat(f).ok =>
            LET reserva == Get(reservas, id)
                out == modificar_reserva(id, f)
                later == Instant(fromisoformat(f)) >
                            Instant(fromisoformat(reserva.fecha_inicio))
            IN  IF later
                THEN /\ out.resp.status = 200
                     /\ out.resp.fecha_fin = f
                     /\ Get(out.store.reservas, id).fecha_fin = f
                ELSE /\ out.resp.status = 400
                     /\ out.resp.detail = ErrIntervalo
                     /\ Get(out.store.reservas, id).fecha_fin = reserva.fecha_fin

\* C10 - a successful modificar_reserva changes only the fecha_fin of the
\* reservation it names: its other fields, every other reservation, the order
\* of the reservations, the rooms and both counters are as before.
C10_PatchFrame ==
    (resp.op = "modificar_reserva" /\ resp.status = 200) =>
        /\ salas = prev.salas
        /\ next_sala_id = prev.next_sala_id
        /\ next_reserva_id = prev.next_reserva_id
        /\ Len(reservas) = Len(prev.reservas)
        /\ \A i \in DOMAIN reservas :
              IF prev.reservas[i].id = resp.id
              THEN reservas[i] = [prev.reservas[i] EXCEPT !.fecha_fin = resp.fecha_fin]
              ELSE reservas[i] = prev.reservas[i]

\* the first of two reservations got another fecha_fin
C10_Witness ==
    /\ resp.op = "modificar_reserva"
    /\ resp.status = 200
    /\ Len(reservas) >= 2
    /\ reservas[1].id = resp.id
    /\ reservas[1].fecha_fin # prev.reservas[1].fecha_fin

\* C11 - sequential, never reused ids: both counters start at 1; a successful
\* create returns the value its counter had before the request, stores the
\* entity under that id as the last entry and moves the counter one up; no
\* other request, failed or successful, moves a counter.  Hence the k-th
\* successful create of a registry returns k, no id is stored twice, the stored
\* ids ascend, and each counter is strictly greater than every stored id.
C11_SequentialIds ==
    /\ resp.op = "start" => next_sala_id = 1 /\ next_reserva_id = 1
    /\ IF resp.op = "crear_sala" /\ resp.status = 201
       THEN /\ resp.id = prev.next_sala_id
            /\ next_sala_id = prev.next_sala_id + 1
            /\ resp.id \notin Keys(prev.salas)
            /\ salas # <<>> /\ salas[Len(salas)].id = resp.id
       ELSE next_sala_id = prev.next_sala_id
    /\ IF resp.op = "crear_reserva" /\ resp.status = 201
       THEN /\ resp.id = prev.next_reserva_id
            /\ next_reserva_id = prev.next_reserva_id + 1
            /\ resp.id \notin Keys(prev.reservas)
            /\ reservas # <<>> /\ reservas[Len(reservas)].id = resp.id
       ELSE next_reserva_id = prev.next_reserva_id
    /\ \A i \in DOMAIN salas : salas[i].id >= 1 /\ salas[i].id < next_sala_id
    /\ \A i \in DOMAIN reservas :
          reservas[i].id >= 1 /\ reservas[i].id < next_reserva_id
    /\ \A i, j \in DOMAIN salas : i < j => salas[i].id < salas[j].id
    /\ \A i, j \in DOMAIN reservas : i < j => reservas[i].id < reservas[j].id

\* the third room was created after the first two had been deleted: it got
\* id 3, not an id that had become free
C11_Witness ==
    /\ resp.op = "crear_sala"
    /\ resp.status = 201
    /\ resp.id = 3
    /\ Len(salas) = 1

\* C12 - non-empty stored text: every stored room has a non-empty nombre and
\* ubicacion and every stored reservation a non-empty nombre_solicitante, and
\* a create whose nombre, ubicacion or nombre_solicitante is empty once trimmed
\* is refused and stores nothing.
C12_NonEmptyText ==
    /\ \A i \in DOMAIN salas : salas[i].nombre # <<>> /\ salas[i].ubicacion # <<>>
    /\ \A i \in DOMAIN reservas : reservas[i].nombre_solicitante # <<>>
    /\ \A p \in SalaPayloads :
          (strip(p.nombre) = <<>> \/ strip(p.ubicacion) = <<>>)
          => LET out == post_salas(p)
             IN  out.resp.status >= 400 /\ out.store = Store
    /\ \A p \in ReservaPayloads :
          strip(p.nombre_solicitante) = <<>>
          => LET out == post_reservas(p)
             IN  out.resp.status >= 400 /\ out.store = Store

\* C13 - filtered listing: historial_reservas with sala_id X never fails and
\* returns exactly the stored reservations of room X, each once, in the order
\* of their creation (ascending id); it returns the empty list when X is no
\* stored room (never assigned, or deleted); without sala_id it returns every
\* stored reservation in the order of creation.
C13_FilteredListing ==
    /\ \A X \in SalaIds :
          LET out == historial_reservas(X)
              items == out.resp.items
          IN  /\ out.resp.status = 200
              /\ Range(items) = {r \in Range(reservas) : r.sala_id = X}
              /\ \A i, j \in DOMAIN items : i < j => items[i].id < items[j].id
              /\ X \notin Keys(salas) => items = <<>>
    /\ LET out == historial_reservas_all
           items == out.resp.items
       IN  /\ out.resp.status = 200
           /\ Range(items) = Range(reservas)
           /\ \A i, j \in DOMAIN items : i < j => items[i].id < items[j].id

\* a filtered listing returned some of the stored reservations and left out
\* those of another room
C13_Witness ==
    /\ resp.op = "historial_reservas"
    /\ resp.id >= 1
    /\ resp.items # <<>>
    /\ Len(resp.items) < Len(reservas)

\* the failures of the taxonomy, by the error text of the response
NotFound == {ErrSalaNoEncontrada, ErrReservaNoEncontrada}
OtherFailures == {ErrNombreDuplicado, ErrSalaNoExiste, ErrFecha, ErrIntervalo}

C15_CancelarReserva ==
    /\ \A id \in ReservaIds :
          LET out == cancelar_reserva(id)
          IN  IF id \notin Keys(reservas)
              THEN /\ out.resp.status = 404
                   /\ out.resp.detail = ErrReservaNoEncontrada
                   /\ out.store = Store
              ELSE /\ out.resp.status = 204
                   /\ out.store.salas = salas
                   /\ out.store.next_sala_id = next_sala_id
                   /\ out.store.next_reserva_id = next_reserva_id
                   /\ Len(out.store.reservas) = Len(reservas) - 1
                   /\ Range(out.store.reservas) = {r \in Range(reservas) : r.id # id}
                   /\ \A i, j \in DOMAIN out.store.reservas :
                         i < j => out.store.reservas[i].id < out.store.reservas[j].id
    /\ (resp.op = "cancelar_reserva" /\ resp.status = 204) =>
          /\ resp.id \in Keys(prev.reservas)
          /\ resp.id \notin Keys(reservas)
          /\ cancelar_reserva(resp.id).resp.status = 404
    /\ (resp.op = "eliminar_sala" /\ resp.status = 204) =>
          \A r \in Range(prev.reservas) :
              r.sala_id = resp.id => cancelar_reserva(r.id).resp.status = 404

\* the first of two reservations was cancelled; the second and its room stay
C15_Witness ==
    /\ resp.op = "cancelar_reserva"
    /\ resp.status = 204
    /\ Len(prev.reservas) = 2
    /\ prev.reservas[1].id = resp.id
    /\ reservas = <<prev.reservas[2]>>
    /\ salas # <<>>

\* C16 - reads are pure: listar_salas, obtener_sala and historial_reservas
\* (with or without sala_id) leave both maps and both counters as they found
\* them, whatever they answer; so the same historial_reservas request made
\* again right after one, with no write in between, returns the identical list.
C16_ReadsPure ==
    /\ listar_salas.store = Store
    /\ historial_reservas_all.store = Store
    /\ \A id \in SalaIds :
          /\ obtener_sala(id).store = Store
          /\ historial_reservas(id).store = Store
    /\ resp.op \in {"listar_salas", "obtener_sala", "historial_reservas"} =>
          Store = prev
    /\ resp.op = "historial_reservas" =>
          LET again == IF resp.id = 0 THEN historial_reservas_all
                       ELSE historial_reservas(resp.id)
          IN  again.resp.items = resp.items /\ again.resp.status = resp.status

\* a filtered listing returned two reservations, which are still stored
C16_Witness ==
    /\ resp.op = "historial_reservas"
    /\ resp.id >= 1
    /\ Len(resp.items) = 2
    /\ reservas = prev.reservas
    /\ Len(reservas) >= 2

\* C20 - no overlap detection: whether crear_reserva succeeds, and with which
\* failure it fails otherwise, is a function of whether sala_id is a stored
\* room and of the two date-time texts alone; the stored reservations have no
\* part in it, so a reservation is accepted on a room that already has one of
\* the very same interval.
C20_NoOverlapDetection ==
    \A p \in ReservaPayloads :
        ReservaCreate(p) =>
            LET out == crear_reserva(p)
                inicio == fromisoformat(p.fecha_inicio)
                fin == fromisoformat(p.fecha_fin)
                outcome == <<out.resp.status, out.resp.detail>>
            IN  outcome =
                    IF p.sala_id \notin Keys(salas) THEN <<400, ErrSalaNoExiste>>
                    ELSE IF ~inicio.ok \/ ~fin.ok THEN <<400, ErrFecha>>
                    ELSE IF inicio.aware # fin.aware THEN <<500, "TypeError">>
                    ELSE IF Instant(fin) <= Instant(inicio) THEN <<400, ErrIntervalo>>
                    ELSE <<201, "">>

\* a second reservation was accepted on a room for the interval of the first
C20_Witness ==
    /\ resp.op = "crear_reserva"
    /\ resp.status = 201
    /\ \E i, j \in DOMAIN reservas :
          /\ i < j
          /\ reservas[j].id = resp.id
          /\ reservas[i].sala_id = reservas[j].sala_id
          /\ reservas[i].fecha_inicio = reservas[j].fecha_inicio
          /\ reservas[i].fecha_fin = reservas[j].fecha_fin

\* both threads have answered, and each ran its request while the other was
\* inside its handler
BothDone(a, b) ==
    /\ a # b
    /\ th[a].pc = "done" /\ th[b].pc = "done"
    /\ th[a].conc /\ th[b].conc

\* C17 - two creates of the same registry served at the same time, with the
\* read of the counter, the write to the map and the increment interleaved in
\* any order: both return, the ids they return are distinct, and each entity
\* is stored under the id returned for it.  (No other request of the run
\* removes anything: two rooms are the only two requests, two reservations
\* come after the one request that made their room.)
C17_ConcurrentCreates ==
    \A a, b \in Threads :
        (/\ BothDone(a, b)
         /\ th[a].status = 201 /\ th[b].status = 201
         /\ \/ th[a].op = "crear_sala" /\ th[b].op = "crear_sala" /\ Taken = 2
            \/ th[a].op = "crear_reserva" /\ th[b].op = "crear_reserva" /\ Taken = 3)
        => /\ th[a].ret # th[b].ret
           /\ \A t \in {a, b} :
                 LET d == IF th[t].op = "crear_sala" THEN salas ELSE reservas
                 IN  /\ th[t].ret \in Keys(d)
                     /\ Get(d, th[t].ret).id = th[t].ret

\* C18 - crear_reserva for room R served at the same time as a successful
\* eliminar_sala of R, in every interleaving of their statements: once both
\* have answered, no stored reservation has sala_id R.
C18_ReservaVsEliminar ==
    \A a, b \in Threads :
        (/\ BothDone(a, b)
         /\ th[a].op = "crear_reserva"
         /\ th[b].op = "eliminar_sala" /\ th[b].status = 204
         /\ th[a].sala_id = th[b].sala_id)
        => \A i \in DOMAIN reservas : reservas[i].sala_id # th[b].sala_id

\* C19 - two crear_sala requests whose names are equal once trimmed and
\* lower-cased, served at the same time on the registry without any other
\* request: at most one of them succeeds, and no two stored rooms have names
\* equal in that sense.
C19_ConcurrentNombre ==
    \A a, b \in Threads :
        (/\ BothDone(a, b)
         /\ Taken = 2
         /\ th[a].op = "crear_sala" /\ th[b].op = "crear_sala"
         /\ NombreNormal(th[a].nombre) = NombreNormal(th[b].nombre))
        => /\ ~(th[a].status = 201 /\ th[b].status = 201)
           /\ \A i, j \in DOMAIN salas :
                 i # j => NombreNormal(salas[i].nombre) # NombreNormal(salas[j].nombre)

====
